---- MODULE Spec2Model ----
(***************************************************************************)
(* Model of the chat relay of src/main.py: the ConnectionManager registry, *)
(* the per-socket websocket_endpoint handler, the redis_listener task of   *)
(* each server process, the Redis history list and the Redis pub/sub       *)
(* channel.  Every "await" of the source that can suspend the running      *)
(* coroutine ends one action; the code between two awaits is one action.   *)
(***************************************************************************)
EXTENDS Integers, Sequences, FiniteSets, TLC

\* ------------------------------------------------------------------ bounds
MaxFrames == 1      \* frames other than messages read by all handlers together
MaxSend == 1        \* message frames read by one handler
MaxFaults == 1      \* Redis command failures and bus drops together
MaxLimit == 3       \* largest limit a history read is asked with
MaxJoins == 1       \* times one client joins voice
MaxClock == 1       \* milliseconds the clock advances

\* ------------------------------------------------------------ input sets
Procs == {"P1", "P2"}
Conns == {"c1", "c2", "c3", "c4", "c5", "c6", "c7"}
Groups == {"Lobby", "Den"}

\* The room a client puts in the URL /ws/{group_id}/{user_id}.
GroupsOf(c) == IF c = "c7" THEN {"Den"} ELSE {"Lobby"}

\* The server process a socket is connected to.
ProcOf(c) == IF c \in {"c1", "c2", "c5", "c6", "c7"} THEN "P1" ELSE "P2"

\* The user ids a client may put in the URL /ws/{group_id}/{user_id}.
UsersOf(c) ==
    IF c \in {"c1", "c3", "c6"} THEN {"u1"} ELSE IF c = "c5" THEN {"u3"} ELSE {"u2"}

\* The names a client may put in its first frame.
NamesOf(c) == IF c = "c3" THEN {"ann"} ELSE {"bob"}

\* line 272: the frame types of the voice branch
VcTypes == {"vc_join", "vc_leave", "vc_signal", "vc_talking", "vc_update"}

\* Voice frames a client may send: the join of the page's script, a signal
\* addressed to a user who is not in the room, and frames that name another
\* author.
VcFrames ==
    {[type |-> "vc_join"], [type |-> "vc_signal", target_id |-> "u3"]}
    \cup {[type |-> t, sender_id |-> "u2", user_name |-> "ann"] :
              t \in {"vc_join", "vc_talking"}}

VARIABLES
    active_connections, \* manager.active_connections of each process
    presence,           \* manager.presence of each process
    pc,                 \* where each websocket_endpoint coroutine is
    cont,               \* where it goes on after the broadcast it awaits
    sock,               \* each socket: "none", "open", "closed"
    cgroup, cuser,      \* the path parameters group_id, user_id
    cinfo,              \* user_info built from the handshake frame
    init_data,          \* the first frame the handler received
    out,                \* the message a handler is storing and publishing
    bc,                 \* the for-loop of broadcast_local each task is in
    lpc,                \* where each redis_listener task is
    busq,               \* payloads the channel has pushed to each subscriber
    history,            \* the Redis list kustify:history:v8:<group>
    received,           \* what each socket was sent, in order
    now,                \* int(time.time()*1000)
    nmsgs, nframes, nfaults,
    \* history variables (not in the code)
    appended,           \* ids of the messages whose rpush completed, in order
    fate,               \* per message: how its handling ended
    opened,             \* the connections that were registered
    discCount,          \* calls of manager.disconnect per connection
    endedBy,            \* what ended each handler
    connects, disconnects, \* registrations and disconnect calls per process
                        \* and room
    bcg,                \* per task: the open sockets registered when its
                        \* broadcast began, and those it sent to
    ldone,              \* messages whose broadcast each listener completed
    drops,              \* bus connection drops seen by each listener
    heard,              \* what the bus pushed to each subscriber, in order
    \* the rest of the program's state
    frame,              \* the author fields of the frame a handler decoded last
    inbox,              \* frames a client has sent that its handler has not read
    \* the voice mesh of the page's script, per client
    joinedVc,           \* joinedVc
    peer,               \* the Peer object: "none", "opening", "open", "destroyed"
    calls,              \* calls: peer id -> media connection
    media,              \* the media connections made so far
    seen,               \* frames of the socket that onmessage has handled
    joins,              \* times each client has joined voice
    myStream            \* what getUserMedia gave each client last: "none",
                        \* "granted", "denied"

vars == <<active_connections, presence, pc, cont, sock, cgroup, cuser, cinfo,
          init_data,
          out, bc, lpc, busq, history, received, now, nmsgs, nframes, nfaults,
          appended, fate, opened, discCount, endedBy, connects, disconnects,
          bcg, ldone, drops, heard, frame, inbox, joinedVc, peer, calls,
          media, seen, joins, myStream>>

\* the state of the clients' voice mesh
mesh == <<joinedVc, peer, calls, media, seen, joins, myStream>>

\* the state of the server processes and of Redis, but for the frames in
\* flight between the clients and the handlers
server == <<active_connections, presence, pc, cont, sock, cgroup, cuser,
            cinfo, init_data, out, bc, lpc, busq, history, now, nmsgs, nframes, nfaults,
            appended, fate, opened, discCount, endedBy, connects, disconnects,
            bcg, ldone, drops, heard, frame>>

Tasks == Conns \cup Procs

\* -------------------------------------------------------- python helpers
EmptyDict == [x \in {} |-> {}]

\* d[k] = v
DictSet(d, k, v) == [x \in (DOMAIN d) \cup {k} |-> IF x = k THEN v ELSE d[x]]

\* del d[k]
DictDel(d, k) == [x \in (DOMAIN d) \ {k} |-> d[x]]

\* d.get(k, default)
DictGet(d, k, default) == IF k \in DOMAIN d THEN d[k] ELSE default

\* x in list
ListHas(s, x) == \E i \in 1..Len(s) : s[i] = x

ListRemoveNothing(s, x) == s

\* list.remove(x): drops the first occurrence of x
ListRemove(s, x) ==
    LET i == CHOOSE j \in 1..Len(s) : s[j] = x /\ \A k \in 1..(j - 1) : s[k] # x
    IN  SubSeq(s, 1, i - 1) \o SubSeq(s, i + 1, Len(s))

Min(a, b) == IF a < b THEN a ELSE b
Max(a, b) == IF a > b THEN a ELSE b

\* ---------------------------------------------------------- redis lists
LPush(list, v) == <<v>> \o list

\* RPUSH key v
RPush(list, v) == Append(list, v)

\* LRANGE key start stop: negative indexes count from the end, the range is
\* clamped to the list, both ends are inclusive (0-based).
LRange(list, start, stop) ==
    LET n  == Len(list)
        s0 == IF start < 0 THEN Max(n + start, 0) ELSE start
        e0 == IF stop < 0 THEN n + stop ELSE Min(stop, n - 1)
    IN  IF s0 > e0 \/ s0 >= n THEN <<>> ELSE SubSeq(list, s0 + 1, e0 + 1)

\* json.dumps / json.loads of the envelopes the server builds
Dumps(v) == <<"json", v>>
Loads(s) == s[2]

\* Payloads another publisher may put on the channel: text that is not JSON,
\* JSON that is not an object, an object without group_id, an object that
\* names a room and is no envelope.
NotJson == <<"text", "{">>
JsonArray == <<"array", <<>>>>
NoRoom == Dumps([type |-> "message"])
NoType == Dumps([group_id |-> "Lobby"])
ForeignPayloads == {NotJson, JsonArray, NoRoom, NoType}

\* the k-th message another server process publishes
ForeignMessage(k) ==
    Dumps([type |-> "message", group_id |-> "Lobby", user_id |-> "u3",
           text |-> 0 - k])

\* json.loads(s) returns (it raises on text that is not JSON)
CanLoad(s) == s[1] # "text"

\* data.get exists (it raises AttributeError on a value that is not a dict)
IsDict(s) == s[1] = "json"

\* data.get(key) is not None
HasKey(s, key) == key \in DOMAIN Loads(s)

\* the default of the limit parameter of get_history
DefaultLimit == 100

\* GET /api/history/{group_id}?limit=
get_history(group_id, limit) ==
    LET messages == LRange(history[group_id], 0 - limit, 0 - 1)
    IN  [i \in 1..Len(messages) |-> Loads(messages[i])]

\* ------------------------------------------------------------- envelopes
\* no frame has been received
NoFrame == <<"none", 0>>

\* First frames receive_json returns: the handshake of the page's script
\* (line 764) and, from one client, an object without name and pfp.
InitFrames(c) ==
    {Dumps([name |-> nm, pfp |-> ""]) : nm \in NamesOf(c)}
    \cup (IF c = "c5" THEN {Dumps([type |-> "heartbeat"])} ELSE {})

\* First frames receive_json or init_data.get raises on, from one client.
BadInitFrames(c) == IF c = "c5" THEN {NotJson, JsonArray} ELSE {}

accepts_arrays(f) == CanLoad(f)

\* lines 182-191: the try block ends without an exception
accepts(f) == CanLoad(f) /\ IsDict(f)

\* lines 184-188: user_info, with the defaults of init_data.get
build_user_info(user_id, f) ==
    [id   |-> user_id,
     name |-> DictGet(Loads(f), "name", "Anon"),
     pfp  |-> DictGet(Loads(f), "pfp", "")]

NoInfo == [id |-> "", name |-> "", pfp |-> ""]
NoMsg == [type |-> "none"]
NoOut == [n |-> 0, msg |-> NoMsg]

\* a frame that carries no author field of its own
NoClaim == [sender_id |-> "", user_id |-> "", user_name |-> ""]

\* payload of broadcast_system (json.dumps of {"type", "group_id", **data})
SystemPayload(type_, group_id, data) ==
    Dumps([type |-> type_, group_id |-> group_id, data |-> data])

\* the presence_update data of lines 206-209 and 298-301; list(dict.values())
\* is kept as the set of its elements
PresenceData(ac, pr, group_id) ==
    [count |-> Len(DictGet(ac, group_id, <<>>)),
     users |-> LET d == DictGet(pr, group_id, EmptyDict)
               IN  {d[u] : u \in DOMAIN d}]

\* ------------------------------------------------------ ConnectionManager
\* lines 199-202: create the room's entry when missing, append the socket
register(ac, group_id, websocket) ==
    LET ac1 == IF group_id \notin DOMAIN ac THEN DictSet(ac, group_id, <<>>) ELSE ac
    IN  DictSet(ac1, group_id, Append(ac1[group_id], websocket))

\* lines 199-203: the presence side of the same statements
register_presence(pr, group_id, user_id, user_info) ==
    LET pr1 == IF group_id \notin DOMAIN pr THEN DictSet(pr, group_id, EmptyDict) ELSE pr
    IN  DictSet(pr1, group_id, DictSet(pr1[group_id], user_id, user_info))

disconnect_keep(ac, websocket, group_id) ==
    IF group_id \in DOMAIN ac /\ ListHas(ac[group_id], websocket)
    THEN DictSet(ac, group_id, ListRemove(ac[group_id], websocket))
    ELSE ac

\* ConnectionManager.disconnect, the active_connections side
disconnect(ac, websocket, group_id) ==
    IF group_id \in DOMAIN ac
    THEN LET l1 == IF ListHas(ac[group_id], websocket)
                   THEN ListRemove(ac[group_id], websocket)
                   ELSE ac[group_id]
         IN  IF l1 = <<>> THEN DictDel(ac, group_id) ELSE DictSet(ac, group_id, l1)
    ELSE ac

\* ConnectionManager.disconnect, the presence side; ac is active_connections
\* before the call
disconnect_presence(ac, pr, websocket, group_id, user_id) ==
    IF group_id \in DOMAIN ac
    THEN LET d1 == IF user_id \in DOMAIN pr[group_id]
                   THEN DictDel(pr[group_id], user_id)
                   ELSE pr[group_id]
         IN  IF group_id \notin DOMAIN disconnect(ac, websocket, group_id)
             THEN DictDel(pr, group_id)
             ELSE DictSet(pr, group_id, d1)
    ELSE pr

\* ------------------------------------------------------- broadcast_local
BcIdle == [on |-> FALSE, p |-> "P1", g |-> "Lobby", msg |-> Dumps(NoMsg),
           idx |-> 0, orphan |-> FALSE]
BcgIdle == [stable |-> {}, got |-> <<>>, failed |-> {}, fin |-> FALSE]

\* the list object the for-loop iterates: the room's list itself, which is
\* empty and unreachable from the registry once the room's entry is deleted
BcList(b, ac) == IF b.orphan THEN <<>> ELSE ac[b.p][b.g]

\* One turn of "for connection in self.active_connections[group_id]": the
\* list iterator yields the element at its index in the list as it is now
\* and moves on; send_text raises on a socket that is not open, and the
\* exception is swallowed ("except Exception: pass"): nothing else is done
\* about the socket. The coroutine may be suspended in the awaited send_text
\* whether it returns or raises.
BcResume(b, gh, rcv, ac, sk) ==
    LET list == BcList(b, ac)
    IN  IF b.idx < Len(list)
        THEN LET ws == list[b.idx + 1]
                 ok == sk[ws] = "open"
             IN  [b   |-> [b EXCEPT !.idx = @ + 1],
                  gh  |-> IF ok THEN [gh EXCEPT !.got = Append(@, ws)]
                                ELSE [gh EXCEPT !.failed = @ \cup {ws}],
                  rcv |-> IF ok THEN [rcv EXCEPT ![ws] = Append(@, b.msg)] ELSE rcv]
        ELSE [b |-> BcIdle, gh |-> [gh EXCEPT !.fin = TRUE], rcv |-> rcv]

\* broadcast_local(group_id, message) up to its first suspension, on the
\* registry ac of process p
BcBegin(p, group_id, message, rcv, ac, sk) ==
    IF group_id \in DOMAIN ac[p]
    THEN BcResume([on |-> TRUE, p |-> p, g |-> group_id, msg |-> message,
                   idx |-> 0, orphan |-> FALSE],
                  [stable |-> {c \in Conns : ListHas(ac[p][group_id], c)
                                             /\ sk[c] = "open"},
                   got |-> <<>>, failed |-> {}, fin |-> FALSE],
                  rcv, ac, sk)
    ELSE [b |-> BcIdle,
          gh |-> [stable |-> {}, got |-> <<>>, failed |-> {}, fin |-> TRUE],
          rcv |-> rcv]

\* the room's list of process p is dropped from the registry: the loops
\* iterating it keep the (empty) old list
Orphaned(b0, p, group_id, ac1) ==
    [t \in Tasks |->
        IF b0[t].on /\ b0[t].p = p /\ b0[t].g = group_id
           /\ group_id \in DOMAIN active_connections[p]
           /\ group_id \notin DOMAIN ac1
        THEN [b0[t] EXCEPT !.orphan = TRUE]
        ELSE b0[t]]

\* ------------------------------------------------------------------ Init
InitBut(running) ==
    /\ active_connections = [p \in Procs |-> EmptyDict]
    /\ presence = [p \in Procs |-> EmptyDict]
    /\ pc = [c \in Conns |-> "idle"]
    /\ cont = [c \in Conns |-> "recv"]
    /\ sock = [c \in Conns |-> "none"]
    /\ cgroup = [c \in Conns |-> "Lobby"]
    /\ cuser = [c \in Conns |-> "u1"]
    /\ cinfo = [c \in Conns |-> NoInfo]
    /\ init_data = [c \in Conns |-> NoFrame]
    /\ out = [c \in Conns |-> NoOut]
    /\ bc = [t \in Tasks |-> BcIdle]
    /\ lpc = [p \in Procs |-> IF p \in running THEN "listen" ELSE "off"]
    /\ busq = [p \in Procs |-> <<>>]
    /\ history = [g \in Groups |-> <<>>]
    /\ received = [c \in Conns |-> <<>>]
    /\ now = 0
    /\ nmsgs = 0
    /\ nframes = 0
    /\ nfaults = 0
    /\ appended = [g \in Groups |-> <<>>]
    /\ fate = <<>>
    /\ opened = {}
    /\ discCount = [c \in Conns |-> 0]
    /\ endedBy = [c \in Conns |-> "none"]
    /\ connects = [p \in Procs, g \in Groups |-> 0]
    /\ disconnects = [p \in Procs, g \in Groups |-> 0]
    /\ bcg = [t \in Tasks |-> BcgIdle]
    /\ ldone = [p \in Procs |-> {}]
    /\ drops = [p \in Procs |-> 0]
    /\ heard = [p \in Procs |-> <<>>]
    /\ frame = [c \in Conns |-> NoClaim]
    /\ inbox = [c \in Conns |-> <<>>]
    /\ joinedVc = [c \in Conns |-> FALSE]
    /\ peer = [c \in Conns |-> "none"]
    /\ calls = [c \in Conns |-> EmptyDict]
    /\ media = <<>>
    /\ seen = [c \in Conns |-> 0]
    /\ joins = [c \in Conns |-> 0]
    /\ myStream = [c \in Conns |-> "none"]

\* one process has started (startup_event has created its listener task)
Init == InitBut({"P1"})

\* both processes have started
InitBus == InitBut(Procs)

\* ---------------------------------------------------- websocket_endpoint
\* line 179: a running process accepts the socket; the handler awaits the
\* first frame
Accept(c) ==
    /\ pc[c] = "idle"
    /\ lpc[ProcOf(c)] # "off"
    /\ \E g \in GroupsOf(c), u \in UsersOf(c) :
         /\ cgroup' = [cgroup EXCEPT ![c] = g]
         /\ cuser' = [cuser EXCEPT ![c] = u]
    /\ sock' = [sock EXCEPT ![c] = "open"]
    /\ pc' = [pc EXCEPT ![c] = "handshake"]
    /\ UNCHANGED <<active_connections, presence, cont, cinfo, init_data, out, bc, lpc, busq,
                   history, received, now, nmsgs, nframes, nfaults, appended,
                   fate, opened, discCount, endedBy, connects, disconnects, bcg,
                   ldone, drops, heard, frame, inbox, mesh>>

\* the client closes its socket
ClientClose(c) ==
    /\ sock[c] = "open"
    /\ pc[c] \notin {"idle", "done"}
    /\ sock' = [sock EXCEPT ![c] = "closed"]
    /\ UNCHANGED <<active_connections, presence, pc, cont, cgroup, cuser, cinfo, init_data,
                   out, bc, lpc, busq, history, received, now, nmsgs, nframes,
                   nfaults, appended, fate, opened, discCount, endedBy, connects,
                   disconnects, bcg, ldone, drops, heard, frame, inbox, mesh>>

\* lines 182-191: receive_json raises (socket closed, frame that is no JSON,
\* JSON that is no object): the socket is closed and the handler returns
HandshakeFail(c) ==
    /\ pc[c] = "handshake"
    /\ \/ /\ sock[c] = "closed"
          /\ UNCHANGED init_data
       \/ /\ sock[c] = "open"
          /\ \E f \in InitFrames(c) \cup BadInitFrames(c) :
               /\ ~accepts(f)
               /\ init_data' = [init_data EXCEPT ![c] = f]
    /\ pc' = [pc EXCEPT ![c] = "done"]
    /\ sock' = [sock EXCEPT ![c] = "closed"]
    /\ endedBy' = [endedBy EXCEPT ![c] = "handshake"]
    /\ UNCHANGED <<active_connections, presence, cont, cgroup, cuser, cinfo, out,
                   bc, lpc, busq, history, received, now, nmsgs, nframes,
                   nfaults, appended, fate, opened, discCount, connects,
                   disconnects, bcg, ldone, drops, heard, frame, inbox, mesh>>

\* lines 183-209: the first frame is a JSON object; the socket is registered
\* and the presence broadcast starts
HandshakeOk(c) ==
    /\ pc[c] = "handshake"
    /\ sock[c] = "open"
    /\ \E f \in InitFrames(c) \cup BadInitFrames(c) :
         LET p    == ProcOf(c)
             g    == cgroup[c]
             info == build_user_info(cuser[c], f)
             ac1  == [active_connections EXCEPT ![p] = register(@, g, c)]
             pr1  == [presence EXCEPT ![p] = register_presence(@, g, cuser[c], info)]
             r    == BcBegin(p, g,
                             SystemPayload("presence_update", g,
                                           PresenceData(ac1[p], pr1[p], g)),
                             received, ac1, sock)
         IN  /\ accepts(f)
             /\ init_data' = [init_data EXCEPT ![c] = f]
             /\ cinfo' = [cinfo EXCEPT ![c] = info]
             /\ active_connections' = ac1
             /\ presence' = pr1
             /\ bc' = [bc EXCEPT ![c] = r.b]
             /\ bcg' = [bcg EXCEPT ![c] = r.gh]
             /\ received' = r.rcv
    /\ pc' = [pc EXCEPT ![c] = "bc"]
    /\ cont' = [cont EXCEPT ![c] = "welcome"]
    /\ opened' = opened \cup {c}
    /\ connects' = [connects EXCEPT ![ProcOf(c), cgroup[c]] = @ + 1]
    /\ UNCHANGED <<sock, cgroup, cuser, out, lpc, busq, history, now, nmsgs,
                   nframes, nfaults, appended, fate, discCount, endedBy,
                   disconnects, ldone, drops, heard, frame, inbox, mesh>>

\* a handler resumes from the send_text its broadcast awaited
BcStep(c) ==
    /\ pc[c] = "bc"
    /\ LET r == BcResume(bc[c], bcg[c], received, active_connections, sock)
       IN  /\ bc' = [bc EXCEPT ![c] = r.b]
           /\ bcg' = [bcg EXCEPT ![c] = r.gh]
           /\ received' = r.rcv
           /\ pc' = [pc EXCEPT ![c] = IF r.b.on THEN "bc" ELSE cont[c]]
    /\ UNCHANGED <<active_connections, presence, cont, sock, cgroup, cuser,
                   cinfo, init_data, out, lpc, busq, history, now, nmsgs, nframes, nfaults,
                   appended, fate, opened, discCount, endedBy, connects,
                   disconnects, ldone, drops, heard, frame, inbox, mesh>>

\* lines 212-215: the welcome is sent outside the try block. On a socket the
\* client has closed the send raises (whatever it raises ends the handler
\* without cleanup) or is dropped silently, depending on the server library.
Welcome(c) ==
    /\ pc[c] = "welcome"
    /\ \/ /\ sock[c] = "open"
          /\ received' = [received EXCEPT ![c] =
                 Append(@, Dumps([type |-> "system", group_id |-> cgroup[c]]))]
          /\ pc' = [pc EXCEPT ![c] = "recv"]
          /\ UNCHANGED endedBy
       \/ /\ sock[c] = "closed"
          /\ pc' = [pc EXCEPT ![c] = "recv"]
          /\ UNCHANGED <<received, endedBy>>
       \/ /\ sock[c] = "closed"
          /\ pc' = [pc EXCEPT ![c] = "done"]
          /\ endedBy' = [endedBy EXCEPT ![c] = "send"]
          /\ UNCHANGED received
    /\ UNCHANGED <<active_connections, presence, cont, sock, cgroup, cuser,
                   cinfo, init_data, out, bc, lpc, busq, history, now, nmsgs, nframes,
                   nfaults, appended, fate, opened, discCount, connects,
                   disconnects, bcg, ldone, drops, heard, frame, inbox, mesh>>

\* the handler of c ends by an exception that nothing catches: the server
\* closes the socket; the registry is left as it is
Crash(c, why) ==
    /\ pc' = [pc EXCEPT ![c] = "done"]
    /\ sock' = [sock EXCEPT ![c] = "closed"]
    /\ endedBy' = [endedBy EXCEPT ![c] = why]

\* a frame arrives on an open socket whose handler awaits receive_text
Reads(c) ==
    /\ pc[c] = "recv"
    /\ sock[c] = "open"
    /\ nframes < MaxFrames
    /\ nframes' = nframes + 1

\* lines 219, 295-301: receive_text raises WebSocketDisconnect; disconnect,
\* then the presence broadcast starts
RecvDisconnect(c) ==
    /\ pc[c] = "recv"
    /\ sock[c] = "closed"
    /\ LET p   == ProcOf(c)
           g   == cgroup[c]
           ac1 == [active_connections EXCEPT ![p] = disconnect(@, c, g)]
           pr1 == [presence EXCEPT ![p] =
                      disconnect_presence(active_connections[p], @, c, g, cuser[c])]
           r   == BcBegin(p, g,
                          SystemPayload("presence_update", g,
                                        PresenceData(ac1[p], pr1[p], g)),
                          received, ac1, sock)
       IN  /\ active_connections' = ac1
           /\ presence' = pr1
           /\ bc' = [Orphaned(bc, p, g, ac1[p]) EXCEPT ![c] = r.b]
           /\ bcg' = [bcg EXCEPT ![c] = r.gh]
           /\ received' = r.rcv
           /\ pc' = [pc EXCEPT ![c] = IF r.b.on THEN "bc" ELSE "leave"]
    /\ cont' = [cont EXCEPT ![c] = "leave"]
    /\ discCount' = [discCount EXCEPT ![c] = @ + 1]
    /\ disconnects' = [disconnects EXCEPT ![ProcOf(c), cgroup[c]] = @ + 1]
    /\ endedBy' = [endedBy EXCEPT ![c] = "disconnect"]
    /\ UNCHANGED <<sock, cgroup, cuser, cinfo, init_data, out, lpc, busq, history, now,
                   nmsgs, nframes, nfaults, appended, fate, opened, connects,
                   ldone, drops, heard, frame, inbox, mesh>>

\* lines 304-306: the forced vc_leave
Leave(c) ==
    /\ pc[c] = "leave"
    /\ LET r == BcBegin(ProcOf(c), cgroup[c],
                        Dumps([type |-> "vc_leave", sender_id |-> cuser[c]]),
                        received, active_connections, sock)
       IN  /\ bc' = [bc EXCEPT ![c] = r.b]
           /\ bcg' = [bcg EXCEPT ![c] = r.gh]
           /\ received' = r.rcv
           /\ pc' = [pc EXCEPT ![c] = IF r.b.on THEN "bc" ELSE "done"]
    /\ cont' = [cont EXCEPT ![c] = "done"]
    /\ UNCHANGED <<active_connections, presence, sock, cgroup, cuser, cinfo, init_data, out,
                   lpc, busq, history, now, nmsgs, nframes, nfaults, appended,
                   fate, opened, discCount, endedBy, connects, disconnects,
                   ldone, drops, heard, frame, inbox, mesh>>

\* lines 219-220: json.loads raises on a frame that is not JSON (and
\* data.get on JSON that is not an object); only WebSocketDisconnect is caught
RecvMalformed(c) ==
    /\ Reads(c)
    /\ Crash(c, "malformed")
    /\ UNCHANGED <<active_connections, presence, cont, cgroup, cuser, cinfo, init_data, out,
                   bc, lpc, busq, history, received, now, nmsgs, nfaults,
                   appended, fate, opened, discCount, connects, disconnects, bcg,
                   ldone, drops, heard, frame, inbox, mesh>>

\* lines 224-225
RecvHeartbeat(c) ==
    /\ Reads(c)
    /\ received' = [received EXCEPT ![c] = Append(@, Dumps([type |-> "heartbeat_ack"]))]
    /\ UNCHANGED <<active_connections, presence, pc, cont, sock, cgroup, cuser,
                   cinfo, init_data, out, bc, lpc, busq, history, now, nmsgs, nfaults,
                   appended, fate, opened, discCount, endedBy, connects,
                   disconnects, bcg, ldone, drops, heard, frame, inbox, mesh>>

\* a frame whose type no branch handles (edit, delete, dm, none): ignored
RecvOther(c) ==
    /\ Reads(c)
    /\ UNCHANGED <<active_connections, presence, pc, cont, sock, cgroup, cuser,
                   cinfo, init_data, out, bc, lpc, busq, history, received, now, nmsgs,
                   nfaults, appended, fate, opened, discCount, endedBy, connects,
                   disconnects, bcg, ldone, drops, heard, frame, inbox, mesh>>

\* The edit and delete frames a client may send: they name a stored message
\* of the room that another user wrote.
EditFrames(c) ==
    {[type |-> t, msg_id |-> Loads(history[cgroup[c]][i]).id, text |-> 0] :
        t \in {"edit", "delete"},
        i \in {j \in 1..Len(history[cgroup[c]]) :
                  Loads(history[cgroup[c]][j]).user_id # cuser[c]}}

\* the client of c sends an edit or a delete frame
SendEdit(c) ==
    /\ sock[c] = "open"
    /\ c \in opened
    /\ nframes + Len(inbox[c]) < MaxFrames
    /\ \E d \in EditFrames(c) : inbox' = [inbox EXCEPT ![c] = Append(@, d)]
    /\ UNCHANGED <<server, received, mesh>>

edit_unchecked(list, d, user_id) ==
    IF d.type = "delete"
    THEN SelectSeq(list, LAMBDA s : Loads(s).id # d.msg_id)
    ELSE [i \in 1..Len(list) |->
            IF Loads(list[i]).id = d.msg_id
            THEN Dumps([Loads(list[i]) EXCEPT !.text = d.text])
            ELSE list[i]]

\* lines 221-292: the if/elif chain has no branch for the types edit and
\* delete; the history list after the handler of user_id has read frame d
no_branch(list, d, user_id) == list

\* lines 218-221: the handler reads the edit or delete frame its client
\* sent; no branch handles it and the loop goes on
RecvEdit(c) ==
    /\ Reads(c)
    /\ inbox[c] # <<>>
    /\ Head(inbox[c]).type \in {"edit", "delete"}
    /\ inbox' = [inbox EXCEPT ![c] = Tail(@)]
    /\ history' = [history EXCEPT ![cgroup[c]] =
                      no_branch(@, Head(inbox[c]), cuser[c])]
    /\ UNCHANGED <<active_connections, presence, pc, cont, sock, cgroup, cuser,
                   cinfo, init_data, out, bc, lpc, busq, received, now, nmsgs,
                   nfaults, appended, fate, opened, discCount, endedBy, connects,
                   disconnects, bcg, ldone, drops, heard, frame, mesh>>

\* the handler of c starts broadcast_local(group_id, message) and goes back
\* to receive_text when it is over
HandlerBroadcast(c, message) ==
    /\ LET r == BcBegin(ProcOf(c), cgroup[c], message, received,
                        active_connections, sock)
       IN  /\ bc' = [bc EXCEPT ![c] = r.b]
           /\ bcg' = [bcg EXCEPT ![c] = r.gh]
           /\ received' = r.rcv
           /\ pc' = [pc EXCEPT ![c] = IF r.b.on THEN "bc" ELSE "recv"]
    /\ cont' = [cont EXCEPT ![c] = "recv"]

\* lines 228-233
RecvTyping(c) ==
    /\ Reads(c)
    /\ HandlerBroadcast(c, SystemPayload("user_typing", cgroup[c],
           [user_id |-> cuser[c], user_name |-> cinfo[c].name]))
    /\ UNCHANGED <<active_connections, presence, sock, cgroup, cuser, cinfo, init_data, out,
                   lpc, busq, history, now, nmsgs, nfaults, appended, fate,
                   opened, discCount, endedBy, connects, disconnects, ldone,
                   drops, heard, frame, inbox, mesh>>

\* lines 257-268
RecvReact(c) ==
    /\ Reads(c)
    /\ HandlerBroadcast(c, SystemPayload("reaction_add", cgroup[c],
           [msg_id |-> "m", user_id |-> cuser[c], emoji |-> "e"]))
    /\ UNCHANGED <<active_connections, presence, sock, cgroup, cuser, cinfo, init_data, out,
                   lpc, busq, history, now, nmsgs, nfaults, appended, fate,
                   opened, discCount, endedBy, connects, disconnects, ldone,
                   drops, heard, frame, inbox, mesh>>

setdefault_sender(d, user_id, user_info) ==
    LET d1 == IF "sender_id" \in DOMAIN d THEN d ELSE DictSet(d, "sender_id", user_id)
    IN  IF d.type = "vc_join"
        THEN DictSet(DictSet(d1, "user_name", user_info.name),
                     "user_pfp", user_info.pfp)
        ELSE d1

\* lines 274-278: data["sender_id"] = user_id, and on vc_join the name and
\* the picture of the handshake
annotate(d, user_id, user_info) ==
    LET d1 == DictSet(d, "sender_id", user_id)
    IN  IF d.type = "vc_join"
        THEN DictSet(DictSet(d1, "user_name", user_info.name),
                     "user_pfp", user_info.pfp)
        ELSE d1

\* the author fields a frame carries
AuthorFields(d) ==
    [sender_id |-> DictGet(d, "sender_id", ""),
     user_id   |-> DictGet(d, "user_id", ""),
     user_name |-> DictGet(d, "user_name", "")]

\* lines 272-292: the frame d, annotated, is broadcast to the local sockets
\* of the room; nothing is published
RecvVcFrame(c, d) ==
    /\ HandlerBroadcast(c, Dumps(annotate(d, cuser[c], cinfo[c])))
    /\ frame' = [frame EXCEPT ![c] = AuthorFields(d)]
    /\ UNCHANGED <<active_connections, presence, sock, cgroup, cuser, cinfo, init_data,
                   out, lpc, busq, history, now, nmsgs, nfaults, appended, fate,
                   opened, discCount, endedBy, connects, disconnects, ldone,
                   drops, heard, mesh>>

\* a voice frame arrives
RecvVc(c) ==
    /\ Reads(c)
    /\ \E d \in VcFrames : RecvVcFrame(c, d)
    /\ UNCHANGED inbox

\* lines 237-250: the envelope of a message frame d
BuildMessage(d, group_id, user_id, user_info, t) ==
    [type |-> "message", id |-> <<user_id, t>>, group_id |-> group_id,
     user_id |-> user_id, user_name |-> user_info.name,
     user_pfp |-> user_info.pfp, text |-> d.text, timestamp |-> t]

\* lines 236-250: the message is built from the frame d; the handler awaits
\* rpush
RecvMessageFrame(c, d) ==
    /\ pc[c] = "recv"
    /\ sock[c] = "open"
    /\ Cardinality({i \in 1..Len(fate) : fate[i].c = c}) < MaxSend
    /\ out' = [out EXCEPT ![c] =
          [n |-> nmsgs + 1,
           msg |-> BuildMessage(d, cgroup[c], cuser[c], cinfo[c], now)]]
    /\ frame' = [frame EXCEPT ![c] = AuthorFields(d)]
    /\ nmsgs' = nmsgs + 1
    /\ fate' = Append(fate, [c |-> c, g |-> cgroup[c], stored |-> FALSE,
                             published |-> FALSE, stable |-> {}, end |-> "inflight"])
    /\ pc' = [pc EXCEPT ![c] = "rpush"]
    /\ UNCHANGED <<active_connections, presence, cont, sock, cgroup, cuser,
                   cinfo, init_data, bc, lpc, busq, history, received, now, nframes,
                   nfaults, appended, opened, discCount, endedBy, connects,
                   disconnects, bcg, ldone, drops, heard, inbox, mesh>>

\* line 237: the clock read by time.time() passes to the next millisecond
Tick ==
    /\ now < MaxClock
    /\ now' = now + 1
    /\ UNCHANGED <<active_connections, presence, pc, cont, sock, cgroup, cuser,
                   cinfo, init_data, out, bc, lpc, busq, history, received,
                   nmsgs, nframes, nfaults, appended, fate, opened, discCount,
                   endedBy, connects, disconnects, bcg, ldone, drops, heard,
                   frame, inbox, mesh>>

\* a message frame arrives
RecvMessage(c) ==
    RecvMessageFrame(c, [type |-> "message", text |-> nmsgs + 1])

\* a message frame that names another author arrives
RecvForgedMessage(c) ==
    RecvMessageFrame(c, [type |-> "message", text |-> nmsgs + 1,
                         user_id |-> "u2", user_name |-> "ann"])

\* line 252: Redis runs the RPUSH
Rpush(c) ==
    /\ pc[c] = "rpush"
    /\ history' = [history EXCEPT ![cgroup[c]] = RPush(@, Dumps(out[c].msg))]
    /\ appended' = [appended EXCEPT ![cgroup[c]] = Append(@, out[c].msg)]
    /\ fate' = [fate EXCEPT ![out[c].n].stored = TRUE]
    /\ pc' = [pc EXCEPT ![c] = "publish"]
    /\ UNCHANGED <<active_connections, presence, cont, sock, cgroup, cuser,
                   cinfo, init_data, out, bc, lpc, busq, received, now, nmsgs, nframes,
                   nfaults, opened, discCount, endedBy, connects, disconnects,
                   bcg, ldone, drops, heard, frame, inbox, mesh>>

\* line 252: the store is unavailable and rpush raises
RpushFail(c) ==
    /\ pc[c] = "rpush"
    /\ nfaults < MaxFaults
    /\ nfaults' = nfaults + 1
    /\ Crash(c, "rpush")
    /\ fate' = [fate EXCEPT ![out[c].n].end = "rpush_failed"]
    /\ UNCHANGED <<active_connections, presence, cont, cgroup, cuser, cinfo, init_data, out,
                   bc, lpc, busq, history, received, now, nmsgs, nframes,
                   appended, opened, discCount, connects, disconnects, bcg,
                   ldone, drops, heard, frame, inbox, mesh>>

\* the open sockets registered for room g on any process
Members(g) ==
    {c \in Conns : /\ sock[c] = "open"
                   /\ g \in DOMAIN active_connections[ProcOf(c)]
                   /\ ListHas(active_connections[ProcOf(c)][g], c)}

\* PUBLISH: Redis pushes the payload to every subscriber of the channel; q
\* is the payloads pushed to each process
Pushed(q, payload) ==
    [p \in Procs |-> IF lpc[p] \in {"listen", "bc"}
                     THEN Append(q[p], payload)
                     ELSE q[p]]

\* line 254: the handler publishes the message
Publish(c) ==
    /\ pc[c] = "publish"
    /\ busq' = Pushed(busq, Dumps(out[c].msg))
    /\ heard' = Pushed(heard, Dumps(out[c].msg))
    /\ fate' = [fate EXCEPT ![out[c].n] =
                   [@ EXCEPT !.published = TRUE, !.end = "ok",
                             !.stable = Members(cgroup[c])]]
    /\ pc' = [pc EXCEPT ![c] = "recv"]
    /\ out' = [out EXCEPT ![c] = NoOut]
    /\ UNCHANGED <<active_connections, presence, cont, sock, cgroup, cuser,
                   cinfo, init_data, bc, lpc, history, received, now, nmsgs, nframes,
                   nfaults, appended, opened, discCount, endedBy, connects,
                   disconnects, bcg, ldone, drops, frame, inbox, mesh>>

\* line 254: the bus is unreachable and publish raises
PublishFail(c) ==
    /\ pc[c] = "publish"
    /\ nfaults < MaxFaults
    /\ nfaults' = nfaults + 1
    /\ Crash(c, "publish")
    /\ fate' = [fate EXCEPT ![out[c].n].end = "publish_failed"]
    /\ UNCHANGED <<active_connections, presence, cont, cgroup, cuser, cinfo, init_data, out,
                   bc, lpc, busq, history, received, now, nmsgs, nframes,
                   appended, opened, discCount, connects, disconnects, bcg,
                   ldone, drops, heard, frame, inbox, mesh>>

\* the payload is a voice envelope
IsVoiceFrame(payload) ==
    /\ "type" \in DOMAIN Loads(payload)
    /\ Loads(payload).type \in VcTypes

\* --------------------------------------------------------- redis_listener
\* the text field of a message payload (the number of the message); 0 for
\* a payload that is no message
MsgNo(payload) ==
    IF HasKey(payload, "type") /\ HasKey(payload, "text")
    THEN Loads(payload).text
    ELSE 0

listen_second(q) ==
    IF Len(q) > 1
    THEN [message |-> q[2], rest |-> <<q[1]>> \o SubSeq(q, 3, Len(q))]
    ELSE [message |-> Head(q), rest |-> Tail(q)]

listen_newest(q) == [message |-> q[Len(q)], rest |-> SubSeq(q, 1, Len(q) - 1)]

\* line 109: "async for message in pubsub.listen()" yields the payloads in
\* the order the bus pushed them
listen(q) == [message |-> Head(q), rest |-> Tail(q)]

AfterErrorEnds == "dead"

\* lines 117-118: the except branch prints and the loop goes on
AfterError == "listen"

get_lobby(data) == "Lobby"

\* line 113: the room a payload of the channel is broadcast to
get_group_id(data) == data.group_id

\* lines 109-116: the next payload of the channel is decoded and its local
\* broadcast starts; a payload json.loads or data.get raises on goes to the
\* except branch, one without group_id is passed over
ListenerTake(p) ==
    /\ lpc[p] = "listen"
    /\ busq[p] # <<>>
    /\ LET payload == listen(busq[p]).message
       IN  IF CanLoad(payload) /\ IsDict(payload)
           THEN IF HasKey(payload, "group_id")
                THEN LET data     == Loads(payload)
                         group_id == get_group_id(data)
                         r        == BcBegin(p, group_id, payload, received,
                                             active_connections, sock)
                     IN  /\ bc' = [bc EXCEPT ![p] = r.b]
                         /\ bcg' = [bcg EXCEPT ![p] = r.gh]
                         /\ received' = r.rcv
                         /\ lpc' = [lpc EXCEPT ![p] =
                                       IF r.b.on THEN "bc" ELSE "listen"]
                         /\ ldone' = [ldone EXCEPT ![p] =
                                IF r.b.on THEN @ ELSE @ \cup {MsgNo(payload)}]
                ELSE UNCHANGED <<bc, bcg, received, lpc, ldone>>
           ELSE /\ lpc' = [lpc EXCEPT ![p] = AfterError]
                /\ UNCHANGED <<bc, bcg, received, ldone>>
    /\ busq' = [busq EXCEPT ![p] = listen(@).rest]
    /\ UNCHANGED <<active_connections, presence, pc, cont, sock, cgroup, cuser,
                   cinfo, init_data, out, history, now, nmsgs, nframes, nfaults, appended,
                   fate, opened, discCount, endedBy, connects, disconnects,
                   drops, heard, frame, inbox, mesh>>

\* line 116: the listener resumes from the send_text its broadcast awaited
ListenerStep(p) ==
    /\ lpc[p] = "bc"
    /\ LET r == BcResume(bc[p], bcg[p], received, active_connections, sock)
       IN  /\ bc' = [bc EXCEPT ![p] = r.b]
           /\ bcg' = [bcg EXCEPT ![p] = r.gh]
           /\ received' = r.rcv
           /\ lpc' = [lpc EXCEPT ![p] = IF r.b.on THEN "bc" ELSE "listen"]
           /\ ldone' = [ldone EXCEPT ![p] =
                           IF r.b.on THEN @ ELSE @ \cup {MsgNo(bc[p].msg)}]
    /\ UNCHANGED <<active_connections, presence, pc, cont, sock, cgroup, cuser,
                   cinfo, init_data, out, busq, history, now, nmsgs, nframes, nfaults,
                   appended, fate, opened, discCount, endedBy, connects,
                   disconnects, drops, heard, frame, inbox, mesh>>

\* another publisher of the channel publishes a payload
ForeignPublish ==
    /\ nfaults < MaxFaults
    /\ nfaults' = nfaults + 1
    /\ \E payload \in ForeignPayloads \cup {ForeignMessage(nfaults + 1)} :
         /\ busq' = Pushed(busq, payload)
         /\ heard' = Pushed(heard, payload)
    /\ UNCHANGED <<active_connections, presence, pc, cont, sock, cgroup, cuser,
                   cinfo, init_data, out, bc, lpc, history, received, now, nmsgs, nframes,
                   appended, fate, opened, discCount, endedBy, connects,
                   disconnects, bcg, ldone, drops, frame, inbox, mesh>>

\* line 109: the connection to the bus drops while the listener awaits the
\* next payload. pubsub.listen() raises and the exception leaves
\* redis_listener, whose task ends; or the client library has reconnected
\* and resubscribed by itself and the loop never sees the drop.
BusDrop(p) ==
    /\ lpc[p] = "listen"
    /\ nfaults < MaxFaults
    /\ nfaults' = nfaults + 1
    /\ drops' = [drops EXCEPT ![p] = @ + 1]
    /\ \E raised \in BOOLEAN :
         /\ lpc' = [lpc EXCEPT ![p] = IF raised THEN "dead" ELSE "listen"]
         /\ busq' = [busq EXCEPT ![p] = IF raised THEN <<>> ELSE @]
    /\ UNCHANGED <<active_connections, presence, pc, cont, sock, cgroup, cuser,
                   cinfo, init_data, out, bc, history, received, now, nmsgs, nframes,
                   appended, fate, opened, discCount, endedBy, connects,
                   disconnects, bcg, ldone, heard, frame, inbox, mesh>>

\* ------------------------------------------- voice mesh (page script)
\* the handler of c reads a voice frame its client has sent
RecvVcSent(c) ==
    /\ pc[c] = "recv"
    /\ sock[c] = "open"
    /\ inbox[c] # <<>>
    /\ RecvVcFrame(c, Head(inbox[c]))
    /\ inbox' = [inbox EXCEPT ![c] = Tail(@)]
    /\ UNCHANGED nframes

\* state.ws.send(frame): the frame is on its way unless the socket is closed
ws_send(c, d) == IF sock[c] = "open" THEN [inbox EXCEPT ![c] = Append(@, d)] ELSE inbox

\* lines 926-943: the microphone is granted, joinedVc is set and the Peer
\* is created; it is not open yet
joinVoice(c) ==
    /\ sock[c] = "open"
    /\ c \in opened
    /\ ~joinedVc[c]
    /\ joins[c] < MaxJoins
    /\ joinedVc' = [joinedVc EXCEPT ![c] = TRUE]
    /\ peer' = [peer EXCEPT ![c] = "opening"]
    /\ joins' = [joins EXCEPT ![c] = @ + 1]
    /\ myStream' = [myStream EXCEPT ![c] = "granted"]
    /\ UNCHANGED <<server, received, inbox, calls, media, seen>>

\* lines 927-932: getUserMedia is refused; joinVoice alerts and returns
joinVoiceDenied(c) ==
    /\ sock[c] = "open"
    /\ c \in opened
    /\ ~joinedVc[c]
    /\ myStream[c] = "none"
    /\ myStream' = [myStream EXCEPT ![c] = "denied"]
    /\ UNCHANGED <<server, received, inbox, joinedVc, peer, calls, media, seen,
                   joins>>

\* lines 945-950: the Peer is open and the join is announced
PeerOpen(c) ==
    /\ peer[c] = "opening"
    /\ peer' = [peer EXCEPT ![c] = "open"]
    /\ inbox' = ws_send(c, [type |-> "vc_join"])
    /\ UNCHANGED <<server, received, joinedVc, calls, media, seen, joins, myStream>>

\* line 975: calls[call.peer] = call
handleStream(cl, call_peer, call) == DictSet(cl, call_peer, call)

ShouldCallSelf(joined, sender_id, uid) == joined

\* lines 959 and 962: a client in voice calls the sender of a vc_join that
\* is not itself
ShouldCall(joined, sender_id, uid) == joined /\ sender_id # uid

\* the media connections of the Peer of user uid that are not closed
Closing(uid) ==
    [m \in 1..Len(media) |->
        IF uid \in {media[m].caller, media[m].callee}
        THEN [media[m] EXCEPT !.state = "closed"]
        ELSE media[m]]

\* the next voice frame of the socket that onmessage has not handled; the
\* frames before it change nothing of the voice mesh
NextVoiceFrame(c) ==
    LET ks == {k \in (seen[c] + 1)..Len(received[c]) : IsVoiceFrame(received[c][k])}
    IN  IF ks = {} THEN 0 ELSE CHOOSE k \in ks : \A j \in ks : k <= j

\* lines 768-785, 958-972: onmessage dispatches a vc_join to handleVcJoin
\* (peer.call and handleStream) and a vc_leave to handleVcLeave (close the
\* call of the sender, which stays in calls)
handleSocketData(c) ==
    /\ NextVoiceFrame(c) # 0
    /\ seen' = [seen EXCEPT ![c] = NextVoiceFrame(c)]
    /\ LET d == Loads(received[c][NextVoiceFrame(c)])
       IN  IF d.type = "vc_join" /\ ShouldCall(joinedVc[c], d.sender_id, cuser[c])
           THEN /\ media' = Append(media, [caller |-> cuser[c],
                                           callee |-> d.sender_id,
                                           state |-> "ringing"])
                /\ calls' = [calls EXCEPT ![c] =
                                handleStream(@, d.sender_id, Len(media) + 1)]
           ELSE IF d.type = "vc_leave" /\ d.sender_id \in DOMAIN calls[c]
           THEN /\ media' = [media EXCEPT ![calls[c][d.sender_id]].state = "closed"]
                /\ UNCHANGED calls
           ELSE UNCHANGED <<media, calls>>
    /\ UNCHANGED <<server, received, inbox, joinedVc, peer, joins, myStream>>

\* lines 952-955: the open Peer of c is called; it answers and keeps the call
PeerCall(c) ==
    /\ peer[c] = "open"
    /\ \E m \in 1..Len(media) :
         /\ media[m].state = "ringing"
         /\ media[m].callee = cuser[c]
         /\ media' = [media EXCEPT ![m].state = "open"]
         /\ calls' = [calls EXCEPT ![c] = handleStream(@, media[m].caller, m)]
    /\ UNCHANGED <<server, received, inbox, joinedVc, peer, seen, joins, myStream>>

\* lines 994-1007: the leave is announced and the Peer destroyed, which
\* closes its media connections; calls is left as it is
leaveVoice(c) ==
    /\ joinedVc[c]
    /\ joinedVc' = [joinedVc EXCEPT ![c] = FALSE]
    /\ inbox' = ws_send(c, [type |-> "vc_leave"])
    /\ peer' = [peer EXCEPT ![c] = "destroyed"]
    /\ media' = Closing(cuser[c])
    /\ UNCHANGED <<server, received, calls, seen, joins, myStream>>

\* nothing is on its way: no frame unread, no handler in a broadcast, no
\* voice frame unhandled, no Peer opening, no call ringing at an open Peer
MeshSettled ==
    /\ \A c \in Conns :
          /\ inbox[c] = <<>>
          /\ pc[c] \in {"idle", "recv", "done"}
          /\ NextVoiceFrame(c) = 0
          /\ peer[c] # "opening"
    /\ \A m \in 1..Len(media) :
          media[m].state = "ringing" =>
              \A c \in Conns : cuser[c] = media[m].callee => peer[c] # "open"

\* a user opens the page when nothing is on its way
AcceptSettled(c) == MeshSettled /\ Accept(c)

\* a client that is in voice sends vc_join once more, when nothing is on
\* its way
RepeatJoin(c) ==
    /\ MeshSettled
    /\ joinedVc[c]
    /\ peer[c] = "open"
    /\ nframes < MaxFrames
    /\ nframes' = nframes + 1
    /\ inbox' = ws_send(c, [type |-> "vc_join"])
    /\ UNCHANGED <<active_connections, presence, pc, cont, sock, cgroup, cuser,
                   cinfo, init_data, out, bc, lpc, busq, history, now, nmsgs,
                   nfaults, appended, fate, opened, discCount, endedBy,
                   connects, disconnects, bcg, ldone, drops, heard, frame,
                   received, mesh>>

\* a user joins voice when nothing is on its way
joinVoiceSettled(c) == MeshSettled /\ joinVoice(c)

\* a user leaves voice when nothing is on its way
leaveVoiceSettled(c) == MeshSettled /\ leaveVoice(c)

\* ------------------------------------------------------------------ Next
\* a step of one listener
ListenerNext ==
    \/ \E p \in Procs : ListenerTake(p)
    \/ \E p \in Procs : ListenerStep(p)
    \/ \E p \in Procs : BusDrop(p)

\* a socket connects, and its handler registers it
ConnectNext(cs) ==
    \/ \E c \in cs : Accept(c)
    \/ \E c \in cs : HandshakeOk(c)
    \/ \E c \in cs : BcStep(c)
    \/ \E c \in cs : Welcome(c)

\* a socket closes, and its handler cleans up
CloseNext(cs) ==
    \/ \E c \in cs : ClientClose(c)
    \/ \E c \in cs : HandshakeFail(c)
    \/ \E c \in cs : RecvDisconnect(c)
    \/ \E c \in cs : Leave(c)

\* a handler reads a frame that is neither a message nor a voice frame
FrameNext(cs) ==
    \/ \E c \in cs : RecvMalformed(c)
    \/ \E c \in cs : RecvHeartbeat(c)
    \/ \E c \in cs : RecvOther(c)
    \/ \E c \in cs : RecvTyping(c)
    \/ \E c \in cs : RecvReact(c)

\* a handler reads a voice frame
VoiceNext(cs) == \E c \in cs : RecvVc(c)

\* a handler reads a message frame, stores and publishes it
MessageNext(cs) ==
    \/ \E c \in cs : RecvMessage(c)
    \/ \E c \in cs : Rpush(c)
    \/ \E c \in cs : Publish(c)

\* a Redis command of a handler fails
FaultNext(cs) ==
    \/ \E c \in cs : RpushFail(c)
    \/ \E c \in cs : PublishFail(c)

\* One process, two sockets: connections, closes and the frames that are
\* answered or broadcast as system events.
Next ==
    \/ ConnectNext({"c1", "c2"})
    \/ CloseNext({"c1", "c2"})
    \/ FrameNext({"c1", "c2"})

Spec == Init /\ [][Next]_vars

\* One process, two sockets that stay open: messages, the history list, the
\* bus and their failures.
NextChat ==
    \/ ConnectNext({"c1", "c2"})
    \/ MessageNext({"c1", "c2"})
    \/ FaultNext({"c1", "c2"})
    \/ ListenerNext

SpecChat == Init /\ [][NextChat]_vars

\* Two processes sharing the bus: c1 on P1 sends, c3 and c4 are on P2 and c3
\* may close.
NextBus ==
    \/ ConnectNext({"c1", "c3", "c4"})
    \/ CloseNext({"c3"})
    \/ MessageNext({"c1"})
    \/ \E p \in Procs : ListenerTake(p)
    \/ \E p \in Procs : ListenerStep(p)

SpecBus == InitBus /\ [][NextBus]_vars

\* One process, two sockets that stay open, one of which sends messages,
\* and another publisher on the channel.
NextFeed ==
    \/ ConnectNext({"c1", "c2"})
    \/ MessageNext({"c1"})
    \/ ForeignPublish
    \/ \E p \in Procs : ListenerTake(p)
    \/ \E p \in Procs : ListenerStep(p)

SpecFeed == Init /\ [][NextFeed]_vars

\* One process, two sockets that stay open: c1 sends voice frames and
\* messages, among them frames that name another author.
NextVoice ==
    \/ ConnectNext({"c1", "c2"})
    \/ VoiceNext({"c1"})
    \/ \E c \in {"c1"} : RecvForgedMessage(c)
    \/ \E c \in {"c1"} : Rpush(c)
    \/ \E c \in {"c1"} : Publish(c)
    \/ \E p \in Procs : ListenerTake(p)
    \/ \E p \in Procs : ListenerStep(p)

SpecVoice == Init /\ [][NextVoice]_vars

\* Two processes: c1 on P1 sends voice frames and may close, c3 is on P2.
NextVoiceBus ==
    \/ ConnectNext({"c1", "c3"})
    \/ VoiceNext({"c1"})
    \/ CloseNext({"c1"})

SpecVoiceBus == InitBus /\ [][NextVoiceBus]_vars

\* One process, two sockets that stay open and both send messages; Redis
\* does not fail.
NextOrder ==
    \/ ConnectNext({"c1", "c2"})
    \/ MessageNext({"c1", "c2"})
    \/ \E p \in Procs : ListenerTake(p)
    \/ \E p \in Procs : ListenerStep(p)

SpecOrder == Init /\ [][NextOrder]_vars

\* One process, two sockets of one user id that stay open and both send
\* messages while the clock advances; Redis does not fail.
NextClock ==
    \/ ConnectNext({"c1", "c6"})
    \/ MessageNext({"c1", "c6"})
    \/ Tick

SpecClock == Init /\ [][NextClock]_vars

\* One process, one socket in each of two rooms: both stay open and send
\* messages, and another publisher publishes to the channel.
NextRooms ==
    \/ ConnectNext({"c1", "c7"})
    \/ MessageNext({"c1", "c7"})
    \/ \E p \in Procs : ListenerTake(p)
    \/ \E p \in Procs : ListenerStep(p)
    \/ ForeignPublish

SpecRooms == Init /\ [][NextRooms]_vars

\* One process, two sockets that stay open: c2 sends messages, c1 sends
\* edit and delete frames for them.
NextEdit ==
    \/ ConnectNext({"c1", "c2"})
    \/ MessageNext({"c2"})
    \/ \E p \in Procs : ListenerTake(p)
    \/ \E p \in Procs : ListenerStep(p)
    \/ \E c \in {"c1"} : SendEdit(c)
    \/ \E c \in {"c1"} : RecvEdit(c)

SpecEdit == Init /\ [][NextEdit]_vars

\* One process, two sockets that connect and close; the first frame of c5
\* may be any frame.
NextHandshake ==
    \/ ConnectNext({"c1", "c5"})
    \/ CloseNext({"c1", "c5"})

SpecHandshake == Init /\ [][NextHandshake]_vars

\* One process, two sockets that connect and close; c1 and c6 are two
\* connections of one user id (two tabs of /ws/Lobby/u1).
NextShared ==
    \/ ConnectNext({"c1", "c6"})
    \/ CloseNext({"c1", "c6"})

SpecShared == Init /\ [][NextShared]_vars

\* a socket connects to a room whose entry was removed from the registry
AcceptRemoved(c) ==
    /\ \E g \in Groups :
          /\ connects[ProcOf(c), g] > 0
          /\ g \notin DOMAIN active_connections[ProcOf(c)]
    /\ Accept(c)

\* One process: c1 connects, sends messages and disconnects as the last
\* socket of the room while broadcasts are in flight; c2 connects to the
\* room after its entry was removed, and sends messages.
NextGc ==
    \/ ConnectNext({"c1"})
    \/ CloseNext({"c1"})
    \/ \E c \in {"c2"} : AcceptRemoved(c)
    \/ \E c \in {"c2"} : HandshakeOk(c)
    \/ \E c \in {"c2"} : BcStep(c)
    \/ \E c \in {"c2"} : Welcome(c)
    \/ MessageNext({"c1", "c2"})
    \/ \E p \in Procs : ListenerTake(p)
    \/ \E p \in Procs : ListenerStep(p)

SpecGc == Init /\ [][NextGc]_vars

\* what the voice mesh does by itself: the handlers read the frames of the
\* clients, the clients handle what they are sent, the Peers open and answer
MeshNext(cs) ==
    \/ \E c \in cs : RecvVcSent(c)
    \/ \E c \in cs : PeerOpen(c)
    \/ \E c \in cs : handleSocketData(c)
    \/ \E c \in cs : PeerCall(c)

\* One process, two clients that join and leave voice at any time.
NextMesh ==
    \/ ConnectNext({"c1", "c2"})
    \/ MeshNext({"c1", "c2"})
    \/ \E c \in {"c1", "c2"} : joinVoice(c)
    \/ \E c \in {"c1", "c2"} : leaveVoice(c)

SpecMesh == Init /\ [][NextMesh]_vars

\* One process, three clients that arrive and join voice one after another;
\* the first of them also leaves voice when nothing is on its way.
NextMeshSeq ==
    \/ \E c \in {"c1", "c2", "c5"} : AcceptSettled(c)
    \/ \E c \in {"c1", "c2", "c5"} : HandshakeOk(c)
    \/ \E c \in {"c1", "c2", "c5"} : BcStep(c)
    \/ \E c \in {"c1", "c2", "c5"} : Welcome(c)
    \/ MeshNext({"c1", "c2", "c5"})
    \/ \E c \in {"c1", "c2", "c5"} : joinVoiceSettled(c)
    \/ \E c \in {"c1"} : leaveVoiceSettled(c)

SpecMeshSeq == Init /\ [][NextMeshSeq]_vars

\* One process, two clients that arrive and join voice one after another;
\* one of them sends its vc_join again.
NextMeshDup ==
    \/ \E c \in {"c1", "c2"} : AcceptSettled(c)
    \/ \E c \in {"c1", "c2"} : HandshakeOk(c)
    \/ \E c \in {"c1", "c2"} : BcStep(c)
    \/ \E c \in {"c1", "c2"} : Welcome(c)
    \/ MeshNext({"c1", "c2"})
    \/ \E c \in {"c1", "c2"} : joinVoiceSettled(c)
    \/ \E c \in {"c2"} : RepeatJoin(c)

SpecMeshDup == Init /\ [][NextMeshDup]_vars

\* One process, two clients that arrive one after another and join voice at
\* any time; the microphone of each may be refused once.
NextMeshCapture ==
    \/ \E c \in {"c1", "c2"} : AcceptSettled(c)
    \/ \E c \in {"c1", "c2"} : HandshakeOk(c)
    \/ \E c \in {"c1", "c2"} : BcStep(c)
    \/ \E c \in {"c1", "c2"} : Welcome(c)
    \/ MeshNext({"c1", "c2"})
    \/ \E c \in {"c1", "c2"} : joinVoice(c)
    \/ \E c \in {"c1", "c2"} : joinVoiceDenied(c)

SpecMeshCapture == Init /\ [][NextMeshCapture]_vars

\* ================================================================ claims
Count(seq, x) == Cardinality({i \in 1..Len(seq) : seq[i] = x})

\* socket c is in the list of its room on its process
Registered(c) ==
    /\ cgroup[c] \in DOMAIN active_connections[ProcOf(c)]
    /\ ListHas(active_connections[ProcOf(c)][cgroup[c]], c)

\* socket c was sent the payload of message number n
GotMsg(c, n) ==
    \E i \in 1..Len(received[c]) :
        /\ HasKey(received[c][i], "type")
        /\ Loads(received[c][i]).type = "message"
        /\ Loads(received[c][i]).text = n

\* s is the end of t
IsSuffix(s, t) ==
    /\ Len(s) <= Len(t)
    /\ s = SubSeq(t, Len(t) - Len(s) + 1, Len(t))

\* the handlers of process p are all waiting for a frame, ended or not started
Settled(p) ==
    \A c \in Conns : ProcOf(c) = p => pc[c] \in {"idle", "recv", "done"}

\* C1: the history read of a room returns the messages whose append
\* completed, in the order the appends completed and each exactly once (read
\* with the default limit, or with the number of messages as the limit); a
\* read with any limit shows a run of that order, never another order.
C1_HistoryInAppendOrder ==
    \A g \in Groups :
        /\ get_history(g, DefaultLimit) = appended[g]
        /\ get_history(g, Len(appended[g])) = appended[g]
        /\ \A limit \in 0..MaxLimit : IsSuffix(get_history(g, limit), appended[g])
        /\ \A n \in 1..Len(fate) :
              fate[n].g = g =>
                 Cardinality({i \in 1..Len(get_history(g, DefaultLimit)) :
                                 get_history(g, DefaultLimit)[i].text = n})
                    = (IF fate[n].stored THEN 1 ELSE 0)

\* two handlers stored a message each, the second one read was stored first
C1_Witness ==
    /\ Len(appended["Lobby"]) = 2
    /\ appended["Lobby"][1].text = 2
    /\ appended["Lobby"][1].user_id # appended["Lobby"][2].user_id
    /\ get_history("Lobby", DefaultLimit)[1].text = 2

\* C2: once the listener of a process has completed the broadcast of a
\* published message, every socket of that process that was registered for
\* the room when the message was published and has stayed open and
\* registered since has been sent the message.
C2_PublishedMessageDelivered ==
    \A n \in 1..Len(fate) : \A p \in Procs :
        (fate[n].published /\ n \in ldone[p]) =>
            \A c \in fate[n].stable :
                (ProcOf(c) = p /\ sock[c] = "open") => GotMsg(c, n)

\* C3: when a local broadcast is over, every socket that was registered and
\* open from its start to its end was sent the envelope exactly once.
C3_BroadcastReachesStableMembers ==
    \A t \in Tasks :
        bcg[t].fin =>
            \A c \in bcg[t].stable :
                sock[c] = "open" => Count(bcg[t].got, c) = 1

\* C4: the handler of a registered socket never ends without having run the
\* registry disconnect exactly once, through the cleanup path (disconnect,
\* presence update, forced vc_leave).
C4_DisconnectExactlyOnce ==
    \A c \in Conns :
        /\ discCount[c] <= 1
        /\ (c \in opened /\ pc[c] = "done") =>
               (discCount[c] = 1 /\ endedBy[c] = "disconnect")

C6_DuplicateNameRejected ==
    \A c, d \in Conns :
        (c # d /\ ProcOf(c) = ProcOf(d) /\ Registered(c) /\ Registered(d))
            => cinfo[c].name # cinfo[d].name

\* C7: no handler is ended by a malformed frame.
C7_MalformedFrameNotFatal ==
    \A c \in Conns : ~(pc[c] = "done" /\ endedBy[c] = "malformed")

\* C8: a message whose history append failed has been published, and the
\* failure has not ended the handler of the sender.
C8_StorageFailureKeepsDelivery ==
    \A n \in 1..Len(fate) :
        fate[n].end = "rpush_failed" =>
            (fate[n].published /\ endedBy[fate[n].c] # "rpush")

\* C9: when the handling of a message ended with the bus unreachable, the
\* open sockets registered for its room on the process of the sender have
\* been sent the message.
C9_BusFailureKeepsLocalDelivery ==
    \A n \in 1..Len(fate) :
        fate[n].end = "publish_failed" =>
            \A c \in Conns :
                (/\ ProcOf(c) = ProcOf(fate[n].c)
                 /\ cgroup[c] = fate[n].g
                 /\ Registered(c)
                 /\ sock[c] = "open") => GotMsg(c, n)

\* C10: the listener of a process whose bus connection dropped has not
\* terminated.
C10_ListenerSurvivesBusDrop ==
    \A p \in Procs : drops[p] > 0 => lpc[p] # "dead"

\* the payload is a chat message envelope
IsMessage(payload) ==
    /\ CanLoad(payload)
    /\ IsDict(payload)
    /\ HasKey(payload, "type")
    /\ Loads(payload).type = "message"
    /\ HasKey(payload, "text")

\* the payload decodes to an object that names a room
Routable(payload) ==
    /\ CanLoad(payload)
    /\ IsDict(payload)
    /\ HasKey(payload, "group_id")

\* C11 (as stated): a bus payload that does not decode to a well-formed
\* envelope is dropped: no socket is ever sent one.
C11_MalformedPayloadDropped ==
    \A c \in Conns : \A i \in 1..Len(received[c]) :
        received[c][i] \notin ForeignPayloads

\* C11 (amended): a bus payload that is not JSON, is not a JSON object or
\* names no room is never sent to a socket and does not end the listener;
\* once the listener has worked off what the bus pushed, the broadcast of
\* every payload that decodes to an object naming a room has been run.
C11_UndecodablePayloadDropped ==
    \A p \in Procs :
        /\ lpc[p] # "dead"
        /\ \A c \in Conns : \A i \in 1..Len(received[c]) :
               received[c][i] \notin {NotJson, JsonArray, NoRoom}
        /\ (lpc[p] = "listen" /\ busq[p] = <<>>) =>
               \A i \in 1..Len(heard[p]) :
                   Routable(heard[p][i]) => MsgNo(heard[p][i]) \in ldone[p]

\* a message pushed after a payload that cannot be routed was broadcast
C11_Witness ==
    \E i, j \in 1..Len(heard["P1"]) :
        /\ i < j
        /\ heard["P1"][i] \in {NotJson, JsonArray, NoRoom}
        /\ IsMessage(heard["P1"][j])
        /\ MsgNo(heard["P1"][j]) \in ldone["P1"]
        /\ GotMsg("c2", MsgNo(heard["P1"][j]))
        /\ lpc["P1"] = "listen"

\* where the bus pushed message number n to process p
BusPos(p, n) ==
    CHOOSE k \in 1..Len(heard[p]) : IsMessage(heard[p][k]) /\ MsgNo(heard[p][k]) = n

\* C14: the messages a socket was sent are in the order the bus pushed them
\* to the listener of its process.
C14_BusOrderKept ==
    \A c \in Conns : \A i, j \in 1..Len(received[c]) :
        (i < j /\ IsMessage(received[c][i]) /\ IsMessage(received[c][j])) =>
            BusPos(ProcOf(c), MsgNo(received[c][i]))
                < BusPos(ProcOf(c), MsgNo(received[c][j]))

\* both sockets were sent two messages of the bus, a local one first
C14_Witness ==
    \A c \in {"c1", "c2"} : \E i, j \in 1..Len(received[c]) :
        /\ i < j
        /\ IsMessage(received[c][i])
        /\ IsMessage(received[c][j])
        /\ MsgNo(received[c][i]) > MsgNo(received[c][j])

\* C12: when a local broadcast during which a send failed is over, every
\* other socket that was registered for the room and open from its start to
\* its end was sent the envelope.
C12_SendFailureIsolated ==
    \A t \in Tasks :
        (bcg[t].fin /\ bcg[t].failed # {}) =>
            \A c \in bcg[t].stable :
                sock[c] = "open" => Count(bcg[t].got, c) = 1

\* C13: a socket whose send failed in a broadcast that is over, and whose
\* handler has ended, is no longer in the membership list of its room.
C13_FailedSocketRemoved ==
    \A t \in Tasks :
        bcg[t].fin =>
            \A c \in bcg[t].failed : pc[c] = "done" => ~Registered(c)

\* the payload is a voice envelope
IsVoice(payload) ==
    /\ CanLoad(payload)
    /\ IsDict(payload)
    /\ HasKey(payload, "type")
    /\ Loads(payload).type \in VcTypes

\* C15: the author fields of an envelope are those of the connection whose
\* handler emits it, whatever author fields the frame carried: the user_id,
\* user_name and user_pfp of a message being stored and published, the
\* sender_id of a voice envelope being broadcast and the user_name and
\* user_pfp of a vc_join; and every message or voice envelope a socket was
\* sent, and every message of the history, carries the identity of a
\* connection.
C15_AuthorFromConnection ==
    /\ \A c \in Conns :
          /\ pc[c] \in {"rpush", "publish"} =>
                /\ out[c].msg.user_id = cuser[c]
                /\ out[c].msg.user_name = cinfo[c].name
                /\ out[c].msg.user_pfp = cinfo[c].pfp
          /\ (bc[c].on /\ IsVoice(bc[c].msg)) =>
                /\ Loads(bc[c].msg).sender_id = cuser[c]
                /\ Loads(bc[c].msg).type = "vc_join" =>
                      /\ Loads(bc[c].msg).user_name = cinfo[c].name
                      /\ Loads(bc[c].msg).user_pfp = cinfo[c].pfp
          /\ \A i \in 1..Len(received[c]) :
                /\ IsVoice(received[c][i]) =>
                      \E k \in opened :
                          /\ Loads(received[c][i]).sender_id = cuser[k]
                          /\ Loads(received[c][i]).type = "vc_join" =>
                                Loads(received[c][i]).user_name = cinfo[k].name
                /\ (IsMessage(received[c][i]) /\ MsgNo(received[c][i]) > 0) =>
                      LET k == fate[MsgNo(received[c][i])].c
                      IN  /\ Loads(received[c][i]).user_id = cuser[k]
                          /\ Loads(received[c][i]).user_name = cinfo[k].name
    /\ \A g \in Groups : \A i \in 1..Len(history[g]) :
          LET k == fate[MsgNo(history[g][i])].c
          IN  /\ Loads(history[g][i]).user_id = cuser[k]
              /\ Loads(history[g][i]).user_name = cinfo[k].name

\* the handler of c1 stored a message whose frame named another author and
\* is broadcasting, under the name of the connection, a vc_join whose frame
\* named another sender; c2 has been sent it
C15_Witness ==
    /\ Len(history["Lobby"]) = 1
    /\ Loads(history["Lobby"][1]).user_id = "u1"
    /\ bc["c1"].on
    /\ IsVoice(bc["c1"].msg)
    /\ Loads(bc["c1"].msg).type = "vc_join"
    /\ frame["c1"].sender_id = "u2"
    /\ Loads(bc["c1"].msg).sender_id = "u1"
    /\ Loads(bc["c1"].msg).user_name = "bob"
    /\ \E i \in 1..Len(received["c2"]) : received["c2"][i] = bc["c1"].msg

\* C16: an envelope addressed to a target user is sent to no socket other
\* than those of the target user and of its sender.
C16_TargetedOnlyToTarget ==
    \A c \in Conns : \A i \in 1..Len(received[c]) :
        (HasKey(received[c][i], "target_id")
            /\ Loads(received[c][i]).sender_id # cuser[c]) =>
                Loads(received[c][i]).target_id = cuser[c]

\* C17: a voice envelope that a socket was sent has been published: the bus
\* has pushed it to the listener of every running process.
C17_VoicePublished ==
    \A c \in Conns : \A i \in 1..Len(received[c]) :
        IsVoice(received[c][i]) =>
            \A p \in Procs :
                lpc[p] # "off" =>
                    \E k \in 1..Len(heard[p]) : heard[p][k] = received[c][i]

\* the users of the clients
Uids == UNION {UsersOf(c) : c \in Conns}

\* the media connections between the Peers of a and b that are not closed
Sessions(a, b) ==
    {m \in 1..Len(media) :
        /\ media[m].state # "closed"
        /\ {media[m].caller, media[m].callee} = {a, b}}

\* C18: whenever and in whatever order the participants join voice, there
\* is at most one session that is not closed between the Peers of any two
\* participants.
C18_OneSessionPerPair ==
    \A a \in Uids : \A b \in Uids \ {a} : Cardinality(Sessions(a, b)) <= 1

\* the users that are in voice
InVoice == {cuser[c] : c \in {d \in Conns : joinedVc[d]}}

\* the media connections that are not closed
Active == {m \in 1..Len(media) : media[m].state # "closed"}

\* C19: when the users have arrived, joined voice and left it one after
\* another and nothing is on its way, the sessions form a full mesh of the N
\* users in voice: N*(N-1)/2 sessions are not closed, and between any two
\* users in voice there is exactly one, which has been answered.
C19_FullMesh ==
    MeshSettled =>
        /\ 2 * Cardinality(Active) = Cardinality(InVoice) * (Cardinality(InVoice) - 1)
        /\ \A a \in InVoice : \A b \in InVoice \ {a} :
              /\ Cardinality(Sessions(a, b)) = 1
              /\ \A m \in Sessions(a, b) : media[m].state = "open"

\* three users are in voice, nothing is on its way and there are three
\* sessions
C19_Witness ==
    /\ MeshSettled
    /\ InVoice = {"u1", "u2", "u3"}
    /\ Cardinality(Active) = 3

\* C20: once a user that was in voice has left it and nothing is on its
\* way, its own session table is empty and the session table of no other
\* client has an entry for it.
C20_LeaverForgotten ==
    \A c \in Conns :
        (MeshSettled /\ joins[c] > 0 /\ ~joinedVc[c]) =>
            /\ calls[c] = EmptyDict
            /\ \A d \in Conns \ {c} : cuser[c] \notin DOMAIN calls[d]

\* user u wrote the stored message of room g whose id is msg_id
IsAuthor(u, g, msg_id) ==
    \E i \in 1..Len(history[g]) :
        /\ Loads(history[g][i]).id = msg_id
        /\ Loads(history[g][i]).user_id = u

\* C21: a step in which a handler reads an edit or a delete frame for a
\* message that the user of its connection did not write leaves the history
\* of every room as it was: the same entries with the same text in the same
\* order.
C21_NonAuthorEditNoOp ==
    [][\A c \in Conns :
          (/\ inbox[c] # <<>>
           /\ inbox'[c] = Tail(inbox[c])
           /\ Head(inbox[c]).type \in {"edit", "delete"}
           /\ ~IsAuthor(cuser[c], cgroup[c], Head(inbox[c]).msg_id))
              => history' = history]_vars

\* the handler of c1 has read the edit or delete frame that its client sent
\* for the stored message of another user
C21_Witness ==
    /\ nframes = 1
    /\ inbox["c1"] = <<>>
    /\ pc["c1"] = "recv"
    /\ \E i \in 1..Len(history["Lobby"]) :
          Loads(history["Lobby"][i]).user_id # cuser["c1"]

\* socket d was sent a presence update that lists user u
PresenceSent(d, u) ==
    \E i \in 1..Len(received[d]) :
        /\ Loads(received[d][i]).type = "presence_update"
        /\ \E info \in Loads(received[d][i]).data.users : info.id = u

\* the handler of c ended in the handshake: the socket is closed, it was
\* never registered and sent nothing, and no presence update lists its user
\* unless another connection of that user was registered
HandshakeFailedClean(c) ==
    endedBy[c] = "handshake" =>
        /\ pc[c] = "done"
        /\ sock[c] = "closed"
        /\ c \notin opened
        /\ ~Registered(c)
        /\ received[c] = <<>>
        /\ (\A k \in opened : cuser[k] # cuser[c]) =>
               \A d \in Conns : ~PresenceSent(d, cuser[c])

MsgCount(c, n) ==
    Cardinality({i \in 1..Len(received[c]) :
                    /\ HasKey(received[c][i], "type")
                    /\ Loads(received[c][i]).type = "message"
                    /\ Loads(received[c][i]).text = n})

\* C23: the one listener of a process broadcasts each published message at
\* most once, so no socket is sent a message twice; and once the listener
\* of a process has completed the broadcast of a published message, every
\* socket of that process that was registered for the room when the message
\* was published and is still registered and open, the sender's own
\* included, was sent it exactly once.
C23_PublishedOnce ==
    \A n \in 1..Len(fate) :
        /\ \A c \in Conns : MsgCount(c, n) <= 1
        /\ \A p \in Procs :
              (fate[n].published /\ n \in ldone[p]) =>
                  \A c \in fate[n].stable :
                      (ProcOf(c) = p /\ Registered(c) /\ sock[c] = "open") =>
                          MsgCount(c, n) = 1

\* C24: the publish of a message comes before its history append: a
\* message that is in the history of its room has been published.
C24_PublishBeforeAppend ==
    \A n \in 1..Len(fate) :
        (\E i \in 1..Len(history[fate[n].g]) :
            Loads(history[fate[n].g][i]).text = n) => fate[n].published

C26_ReadLastLimit ==
    \A g \in Groups : \A limit \in 0..MaxLimit :
        /\ Len(get_history(g, limit)) = Min(limit, Len(appended[g]))
        /\ IsSuffix(get_history(g, limit), appended[g])

\* the media connections that the Peer of a has dialled to b and that are
\* not closed
Dialled(a, b) ==
    {m \in 1..Len(media) :
        /\ media[m].state # "closed"
        /\ media[m].caller = a
        /\ media[m].callee = b}

\* C27: a client dials a peer id only when it has no session with it: of
\* the media connections a client has dialled to one peer id, at most one
\* is not closed.
C27_DedupeByPeerId ==
    \A a \in Uids : \A b \in Uids \ {a} : Cardinality(Dialled(a, b)) <= 1

\* the vc_join of user u has been broadcast: some socket was sent it
JoinBroadcast(u) ==
    \E d \in Conns : \E i \in 1..Len(received[d]) :
        /\ IsVoice(received[d][i])
        /\ Loads(received[d][i]).type = "vc_join"
        /\ Loads(received[d][i]).sender_id = u

\* C28: a client whose vc_join was sent or broadcast, or that is in voice,
\* was granted the microphone; a client that was refused it is not in
\* voice, has sent nothing and has no session; and a session was dialled by
\* a client whose own vc_join had been broadcast, and answered by one whose
\* own vc_join had been broadcast.
C28_JoinAfterCapture ==
    /\ \A c \in Conns :
          /\ (joinedVc[c] \/ peer[c] # "none" \/ inbox[c] # <<>>) =>
                myStream[c] = "granted"
          /\ myStream[c] = "denied" =>
                /\ ~joinedVc[c]
                /\ inbox[c] = <<>>
                /\ calls[c] = EmptyDict
                /\ ~JoinBroadcast(cuser[c])
    /\ \A m \in 1..Len(media) :
          /\ JoinBroadcast(media[m].caller)
          /\ media[m].state = "open" => JoinBroadcast(media[m].callee)

\* C29: no socket is sent the user_typing envelope of a typing frame that
\* its own connection sent (the users of the sockets differ), and the
\* history holds nothing but the messages that were appended.
C29_TypingNotEchoed ==
    /\ \A c \in Conns : \A i \in 1..Len(received[c]) :
          Loads(received[c][i]).type = "user_typing" =>
              Loads(received[c][i]).data.user_id # cuser[c]
    /\ \A g \in Groups : Len(history[g]) = Len(appended[g])

\* the places of message number n in the history of room g
HistPos(g, n) == {i \in 1..Len(history[g]) : Loads(history[g][i]).text = n}

\* the places of message number n in what socket c was sent
LivePos(c, n) ==
    {i \in 1..Len(received[c]) :
        /\ HasKey(received[c][i], "type")
        /\ Loads(received[c][i]).type = "message"
        /\ Loads(received[c][i]).text = n}

PubPos(p, n) ==
    {k \in 1..Len(heard[p]) : IsMessage(heard[p][k]) /\ MsgNo(heard[p][k]) = n}

ListedUsers(p, g) ==
    {info.id : info \in PresenceData(active_connections[p], presence[p], g).users}

\* C31: the user list agrees with the connection list, in the registry and
\* in every presence update sent: the count is the number of listed users,
\* and the user of every socket registered for a room is listed for it.
C31_UsersMatchConnections ==
    /\ \A p \in Procs, g \in Groups :
          /\ PresenceData(active_connections[p], presence[p], g).count
                 = Cardinality(ListedUsers(p, g))
          /\ \A c \in Conns :
                (ProcOf(c) = p /\ cgroup[c] = g /\ Registered(c))
                    => cuser[c] \in ListedUsers(p, g)
    /\ \A c \in Conns : \A i \in 1..Len(received[c]) :
          Loads(received[c][i]).type = "presence_update" =>
              Loads(received[c][i]).data.count
                  = Cardinality(Loads(received[c][i]).data.users)

\* C32: no two stored messages of a room carry the same id.
C32_MessageIdsUnique ==
    \A g \in Groups : \A i, j \in 1..Len(history[g]) :
        i # j => Loads(history[g][i]).id # Loads(history[g][j]).id

\* C33: a payload that names a room is only ever sent to sockets of that
\* room, a broadcast for a room only reaches sockets registered for that
\* room, and a payload of the bus that names no room is sent to no socket.
C33_RoomsIsolated ==
    /\ \A c \in Conns : \A i \in 1..Len(received[c]) :
          HasKey(received[c][i], "group_id") =>
              Loads(received[c][i]).group_id = cgroup[c]
    /\ \A t \in Tasks :
          bc[t].on => \A k \in 1..Len(bcg[t].got) :
                         cgroup[bcg[t].got[k]] = bc[t].g
    /\ \A p \in Procs : \A k \in 1..Len(heard[p]) :
          (IsDict(heard[p][k]) /\ ~HasKey(heard[p][k], "group_id")) =>
              \A c \in Conns : \A i \in 1..Len(received[c]) :
                  received[c][i] # heard[p][k]

\* a socket of each room was sent a message of its room while both were
\* registered, and the listener has passed over a payload without a room
C33_Witness ==
    /\ Registered("c1") /\ Registered("c7")
    /\ cgroup["c1"] # cgroup["c7"]
    /\ \E n \in 1..Len(fate) : fate[n].g = "Den" /\ GotMsg("c7", n)
    /\ \E n \in 1..Len(fate) : fate[n].g = "Lobby" /\ GotMsg("c1", n)
    /\ \E k \in 1..Len(heard["P1"]) : heard["P1"][k] = NoRoom
    /\ busq["P1"] = <<>>
    /\ lpc["P1"] = "listen"

====
